---- MODULE Spec2Model ----
(***************************************************************************)
(* A model of the fips build-configuration engine (GrabCAD/fips):          *)
(*   mod/config.py   load, list, get_config_dirs, get_toolchain,           *)
(*                   check_config_valid and their helpers                  *)
(*   mod/project.py  gen_project and the verbs gen, build, make_clean,     *)
(*                   run and clean                                         *)
(*   mod/tools/clion.py  the writers of the .idea files                    *)
(*   mod/log.py      error (fatal by default: sys.exit(10))                *)
(*                                                                         *)
(* A config is a Python dict: a function from key strings to values.       *)
(* A file name is a sequence of characters, so that glob patterns match    *)
(* as fnmatch does.  A path is <<directory, <<name, "yml">>>>.             *)
(***************************************************************************)
EXTENDS Naturals, Sequences, FiniteSets, TLC

VARIABLES
    proj_dir,     \* the project directory: fips_dir (the base installation) or WorkProj
    imported,     \* what dep.get_all_imports_exports returns: [success, projs]
    cfgFiles,     \* config directories on disk: directory -> (name -> file content)
    globOrder,    \* the order in which glob lists the names of a directory
    tcFiles,      \* toolchain files on disk: a set of <<layer, file name>>
    tcDirs,       \* projects that have a fips-files/toolchains directory
    sdks,         \* cross-platform SDKs installed (emscripten, android)
    tools,        \* build tools whose check_exists answers True
    call,         \* the last call of a config.py function and what it returned
    buildDirs,    \* build directory of each config name: "none" (no directory),
                  \* "empty" (no CMakeCache.txt in it) or "cached"
    deployDirs,   \* deploy directory of each config name: "none" or "dir"
    vb,           \* the running verb of project.py
    adapterLog,   \* adapter invocations for the config processed last, in order
    ideaFiles     \* the project's .idea directory: [dir, files], files a
                  \* function from the names of the files in it to their content

vars == <<proj_dir, imported, cfgFiles, globOrder, tcFiles, tcDirs, sdks, tools,
          call, buildDirs, deployDirs, vb, adapterLog, ideaFiles>>

cfgVars == <<proj_dir, imported, cfgFiles, globOrder, tcFiles, tcDirs, sdks, tools>>
fsVars  == <<cfgVars, ideaFiles>>

(***************************************************************************)
(* Bounds of the model.                                                    *)
(***************************************************************************)
\* imported projects
MaxImports == 2
\* toolchain files on disk
MaxTcFiles == 2
\* verb invocations in a row
MaxRuns == 2

\* Python's None as a config value, and None where a path is expected
None == "None"
NoPath == <<>>

SeqToSet(q) == {q[i] : i \in 1..Len(q)}

\* Project directories: the base installation, the working project, the imports
fips_dir == <<"fips", 0>>
WorkProj == <<"proj", 0>>
Imp(i) == <<"imp", i>>

\* The imported projects 1..n, in the order dep.get_all_imports_exports lists them
RECURSIVE ImpSeq(_)
ImpSeq(n) == IF n = 0 THEN <<>> ELSE Append(ImpSeq(n - 1), Imp(n))

(***************************************************************************)
(* mod/config.py: module tables                                            *)
(***************************************************************************)
native_platforms == {"osx", "linux", "win32", "win64"}

build_tools == {"make", "ninja", "xcodebuild", "cmake", "vscode_cmake", "clion"}

\* A mutation of valid_build_tool: every name is taken for a build tool.
valid_build_tool_any(name) == TRUE

valid_build_tool(name) == name \in build_tools

(***************************************************************************)
(* Directories and paths                                                   *)
(***************************************************************************)
\* util.get_configs_dir(proj): the project's configs directory, or None
get_configs_dir(p) ==
    IF <<p, "configs">> \in DOMAIN cfgFiles THEN <<p, "configs">> ELSE NoPath

\* f'{fips_dir}/configs'
FipsConfigsDir == <<fips_dir, "configs">>

\* util.get_toolchains_dir(proj): the project's toolchains directory, or None
get_toolchains_dir(p) ==
    IF p \in tcDirs THEN <<p, "toolchains">> ELSE NoPath

\* f'{fips_dir}/cmake-toolchains'
FipsToolchainsDir == <<fips_dir, "cmake-toolchains">>

\* os.path.isfile of a toolchain path f'{dir}/{file}'
isfile(dir, file) == <<dir, file>> \in tcFiles

\* f'{curDir}/{name}.yml'
YmlPath(dir, name) == <<dir, <<name, "yml">>>>

\* os.path.split(path) -> (folder, fname); os.path.splitext(fname)[0]
path_folder(path) == path[1]
path_name(path)   == path[2][1]

(***************************************************************************)
(* glob: fnmatch of a pattern against a file name, '*' matching any run    *)
(* of characters.                                                          *)
(***************************************************************************)
RECURSIVE fnmatch(_, _)
fnmatch(s, p) ==
    IF p = <<>> THEN s = <<>>
    ELSE IF Head(p) = "*"
         THEN fnmatch(s, Tail(p)) \/ (s # <<>> /\ fnmatch(Tail(s), p))
         ELSE s # <<>> /\ Head(s) = Head(p) /\ fnmatch(Tail(s), Tail(p))

\* glob.glob(f'{curDir}/{pattern}.yml'): the matching paths, in listing order
glob(dir, pattern) ==
    LET hit(n) == n \in DOMAIN cfgFiles[dir] /\ fnmatch(n, pattern)
        names  == SelectSeq(globOrder, hit)
    IN [i \in 1..Len(names) |-> YmlPath(dir, names[i])]

(***************************************************************************)
(* get_config_dirs                                                         *)
(***************************************************************************)
RECURSIVE dep_config_dirs(_)
dep_config_dirs(projs) ==
    IF projs = <<>> THEN <<>>
    ELSE LET d == get_configs_dir(Head(projs))
         IN (IF d # NoPath THEN <<d>> ELSE <<>>) \o dep_config_dirs(Tail(projs))

\* A mutation of get_config_dirs: the base installation's directory is put
\* first.
get_config_dirs_base_first ==
    LET dirs == IF fips_dir # proj_dir /\ imported.success
                THEN dep_config_dirs(imported.projs)
                ELSE <<>>
    IN <<FipsConfigsDir>> \o dirs

get_config_dirs ==
    LET dirs == IF fips_dir # proj_dir /\ imported.success
                THEN dep_config_dirs(imported.projs)
                ELSE <<>>
    IN Append(dirs, FipsConfigsDir)

(***************************************************************************)
(* list                                                                    *)
(***************************************************************************)
\* the order of the characters of a file name
ord(c) == CASE c = "a" -> 1 [] c = "b" -> 2 [] OTHER -> 3

\* Python's str <
RECURSIVE str_lt(_, _)
str_lt(s, t) ==
    IF t = <<>> THEN FALSE
    ELSE IF s = <<>> THEN TRUE
    ELSE IF Head(s) = Head(t) THEN str_lt(Tail(s), Tail(t))
    ELSE ord(Head(s)) < ord(Head(t))

\* lines 153-157: the names of the listed paths, sorted
list_names(paths) ==
    SortSeq([i \in 1..Len(paths) |-> path_name(paths[i])], str_lt)

\* list(fips_dir, proj_dir, pattern): res[curDir] for every config
\* directory; the glob is f'{curDir}/*.yml' whatever the pattern
list(pattern) ==
    [curDir \in SeqToSet(get_config_dirs) |-> list_names(glob(curDir, <<"*">>))]

(***************************************************************************)
(* load                                                                    *)
(***************************************************************************)
\* defaults of the optional keys (lines 184-191)
load_defaults ==
    [x \in {"generator", "generator-platform", "generator-toolset", "defines"} |->
        IF x = "generator" THEN "Default" ELSE None]

\* A mutation of load_patch: keys of the file win over the loader's.
load_patch_file_first(data, path) ==
    data @@ ("path" :> path) @@ ("folder" :> path_folder(path))
        @@ ("name" :> path_name(path)) @@ load_defaults

\* lines 178-191: patch path, folder and name, then the defaults
load_patch(data, path) ==
    ("path" :> path) @@ ("folder" :> path_folder(path))
        @@ ("name" :> path_name(path)) @@ data @@ load_defaults

\* A mutation of append_unique: every config is appended.
append_always(configs, cfg) == Append(configs, cfg)

\* lines 194-198: don't append multiple configs with the same name
append_unique(configs, cfg) ==
    IF \E i \in 1..Len(configs) : configs[i]["name"] = cfg["name"]
    THEN configs
    ELSE Append(configs, cfg)

\* The body of "for path in paths" for the paths left: a parse error leaves
\* the except clause through e.message (an AttributeError), ending load.
RECURSIVE load_paths(_, _)
load_paths(configs, paths) ==
    IF paths = <<>> THEN [raised |-> FALSE, configs |-> configs]
    ELSE LET path == Head(paths)
             file == cfgFiles[path_folder(path)][path_name(path)]
         IN IF ~file.ok
            THEN [raised |-> TRUE, configs |-> configs]
            ELSE load_paths(append_unique(configs, load_patch(file.data, path)),
                            Tail(paths))

RECURSIVE load_dirs(_, _, _)
load_dirs(configs, dirs, pattern) ==
    IF dirs = <<>> THEN [raised |-> FALSE, configs |-> configs]
    ELSE LET r == load_paths(configs, glob(Head(dirs), pattern))
         IN IF r.raised THEN r ELSE load_dirs(r.configs, Tail(dirs), pattern)

load(pattern) == load_dirs(<<>>, get_config_dirs, pattern)

(***************************************************************************)
(* mod/log.py                                                              *)
(***************************************************************************)
\* A mutation of log_error: no error ends the process.
log_error_never_exits(fatal) == FALSE

\* log.error(msg, fatal=True): prints, and exits the process with code 10
\* unless fatal is False.  TRUE when the call ends the process.
log_error(fatal) == fatal

(***************************************************************************)
(* What a call can end in: a return value, an uncaught exception, or the   *)
(* process exit of a fatal log.error.                                      *)
(***************************************************************************)
Return(v)   == [kind |-> "return", value |-> v]
KeyError(k) == [kind |-> "KeyError", key |-> k]
Exit10      == [kind |-> "exit", code |-> 10]

(***************************************************************************)
(* get_toolchain                                                           *)
(***************************************************************************)
\* A mutation of is_native_cfg: the native-platform shortcut is lost.
never_native_cfg(cfg) == FALSE

\* lines 68-70: a config of a native target platform
is_native_cfg(cfg) ==
    "platform" \in DOMAIN cfg /\ cfg["platform"] \in native_platforms

\* A mutation of toolchain_name: the override is not looked at.
toolchain_name_platform_only(cfg) == <<cfg["platform"], "toolchain.cmake">>

\* lines 75-79: the toolchain file name, f"{cfg['platform']}.toolchain.cmake"
\* unless the config names one
toolchain_name(cfg) ==
    IF "cmake-toolchain" \in DOMAIN cfg
    THEN cfg["cmake-toolchain"]
    ELSE <<cfg["platform"], "toolchain.cmake">>

\* lines 100-102: the for loop's else clause, the fips directory
toolchain_in_fips(toolchain) ==
    IF isfile(FipsToolchainsDir, toolchain)
    THEN <<FipsToolchainsDir, toolchain>>
    ELSE NoPath

\* A mutation of toolchain_in_imports: the imported projects are searched
\* from the last to the first.
RECURSIVE toolchain_in_imports_rev(_, _)
toolchain_in_imports_rev(projs, toolchain) ==
    IF projs = <<>> THEN toolchain_in_fips(toolchain)
    ELSE LET p == projs[Len(projs)]
             toolchain_dir == get_toolchains_dir(p)
         IN IF toolchain_dir # NoPath /\ isfile(toolchain_dir, toolchain)
            THEN <<toolchain_dir, toolchain>>
            ELSE toolchain_in_imports_rev(SubSeq(projs, 1, Len(projs) - 1), toolchain)

\* lines 88-102: the imported projects in order, then the else clause (the
\* loop has no break, so it runs whenever the loop ends without a return)
RECURSIVE toolchain_in_imports(_, _)
toolchain_in_imports(projs, toolchain) ==
    IF projs = <<>> THEN toolchain_in_fips(toolchain)
    ELSE LET toolchain_dir == get_toolchains_dir(Head(projs))
         IN IF toolchain_dir # NoPath /\ isfile(toolchain_dir, toolchain)
            THEN <<toolchain_dir, toolchain>>
            ELSE toolchain_in_imports(Tail(projs), toolchain)

\* lines 81-104: the project's own toolchains directory first
toolchain_search(toolchain) ==
    LET toolchain_dir == get_toolchains_dir(proj_dir)
    IN IF toolchain_dir # NoPath /\ isfile(toolchain_dir, toolchain)
       THEN <<toolchain_dir, toolchain>>
       ELSE toolchain_in_imports(imported.projs, toolchain)

get_toolchain(cfg) ==
    IF is_native_cfg(cfg) THEN Return(NoPath)
    ELSE IF "platform" \notin DOMAIN cfg /\ log_error(TRUE) THEN Exit10
    ELSE Return(toolchain_search(toolchain_name(cfg)))

(***************************************************************************)
(* check_build_tool, check_sdk                                             *)
(***************************************************************************)
\* <tool>.check_exists(fips_dir) of the tool's module, else False
check_build_tool(tool_name) ==
    IF tool_name \in {"cmake", "make", "ninja", "xcodebuild", "vscode_cmake", "clion"}
    THEN tool_name \in tools
    ELSE FALSE

\* emscripten.check_exists / android.check_exists, else True
check_sdk(platform_name) ==
    IF platform_name \in {"emscripten", "android"}
    THEN platform_name \in sdks
    ELSE TRUE

(***************************************************************************)
(* check_config_valid: each step takes and gives [kind, valid, messages],  *)
(* kind "ok" while running; a KeyError ends the call.                      *)
(***************************************************************************)
required_fields == <<"name", "folder", "platform", "generator", "build_tool", "build_type">>

MsgMissingField(field, path) == [msg |-> "missing field", field |-> field, path |-> path]
MsgSdk(platform)             == [msg |-> "platform sdk not installed", platform |-> platform]
MsgInvalidTool(tool, path)   == [msg |-> "invalid build_tool name", tool |-> tool, path |-> path]
MsgToolNotFound(tool)        == [msg |-> "build tool not found", tool |-> tool]
MsgNoToolchain(name)         == [msg |-> "toolchain file not found", name |-> name]

\* A mutation of Fail: the message is kept, valid stays as it was.
Fail_message_only(st, m) == [st EXCEPT !.messages = Append(@, m)]

Fail(st, m) == [st EXCEPT !.valid = FALSE, !.messages = Append(@, m)]

\* lines 244-248
RECURSIVE ccv_fields(_, _, _)
ccv_fields(cfg, fields, st) ==
    IF fields = <<>> \/ st.kind # "ok" THEN st
    ELSE IF Head(fields) \in DOMAIN cfg THEN ccv_fields(cfg, Tail(fields), st)
    ELSE IF "path" \notin DOMAIN cfg THEN KeyError("path")
    ELSE ccv_fields(cfg, Tail(fields), Fail(st, MsgMissingField(Head(fields), cfg["path"])))

\* A mutation of ccv_sdk: the check is skipped once the config is invalid.
ccv_sdk_short_circuit(cfg, st) ==
    IF st.kind # "ok" \/ ~st.valid THEN st
    ELSE IF "platform" \notin DOMAIN cfg THEN KeyError("platform")
    ELSE IF ~check_sdk(cfg["platform"]) THEN Fail(st, MsgSdk(cfg["platform"]))
    ELSE st

\* lines 251-255
ccv_sdk(cfg, st) ==
    IF st.kind # "ok" THEN st
    ELSE IF "platform" \notin DOMAIN cfg THEN KeyError("platform")
    ELSE IF ~check_sdk(cfg["platform"]) THEN Fail(st, MsgSdk(cfg["platform"]))
    ELSE st

\* lines 258-262
ccv_tool_name(cfg, st) ==
    IF st.kind # "ok" THEN st
    ELSE IF "build_tool" \notin DOMAIN cfg THEN KeyError("build_tool")
    ELSE IF ~valid_build_tool(cfg["build_tool"])
         THEN IF "path" \notin DOMAIN cfg THEN KeyError("path")
              ELSE Fail(st, MsgInvalidTool(cfg["build_tool"], cfg["path"]))
    ELSE st

\* lines 265-267
ccv_tool_found(cfg, st) ==
    IF st.kind # "ok" THEN st
    ELSE IF "build_tool" \notin DOMAIN cfg THEN KeyError("build_tool")
    ELSE IF ~check_build_tool(cfg["build_tool"])
         THEN Fail(st, MsgToolNotFound(cfg["build_tool"]))
    ELSE st

\* A mutation of ccv_toolchain: a missing toolchain file is not reported.
ccv_toolchain_ignored(cfg, st) == st

\* lines 270-274
ccv_toolchain(cfg, st) ==
    IF st.kind # "ok" THEN st
    ELSE IF "platform" \notin DOMAIN cfg THEN KeyError("platform")
    ELSE IF cfg["platform"] \notin native_platforms
         THEN LET toolchain_path == get_toolchain(cfg)
              IN IF toolchain_path.kind # "return" THEN toolchain_path
                 ELSE IF toolchain_path.value = NoPath
                      THEN IF "name" \notin DOMAIN cfg THEN KeyError("name")
                           ELSE Fail(st, MsgNoToolchain(cfg["name"]))
                 ELSE st
    ELSE st

\* A mutation of ccv_return: the messages are handed back only when they
\* were printed.
ccv_return_printed_only(st, print_errors) ==
    IF st.kind # "ok" THEN st
    ELSE [kind |-> "return", valid |-> st.valid,
          messages |-> IF print_errors THEN st.messages ELSE <<>>,
          printed |-> IF print_errors /\ ~log_error(FALSE) THEN st.messages ELSE <<>>]

\* lines 276-280: the messages are printed with log.error(msg, False)
ccv_return(st, print_errors) ==
    IF st.kind # "ok" THEN st
    ELSE [kind |-> "return", valid |-> st.valid, messages |-> st.messages,
          printed |-> IF print_errors /\ ~log_error(FALSE) THEN st.messages ELSE <<>>]

check_config_valid(cfg, print_errors) ==
    LET s0 == [kind |-> "ok", valid |-> TRUE, messages |-> <<>>]
        s1 == ccv_fields(cfg, required_fields, s0)
        s2 == ccv_sdk(cfg, s1)
        s3 == ccv_tool_name(cfg, s2)
        s4 == ccv_tool_found(cfg, s3)
        s5 == ccv_toolchain(cfg, s4)
    IN ccv_return(s5, print_errors)

(***************************************************************************)
(* The file systems and environments the calls are made in                 *)
(***************************************************************************)
\* config file names, and the patterns asked for
Names    == {<<"a">>, <<"a", "b">>, <<"b">>}
LoadNames == {<<"a">>, <<"a", "b">>}
Patterns == {<<"*">>, <<"a", "*">>, <<"a">>, <<"b">>}

Malformed  == [ok |-> FALSE, data |-> <<>>]
WellFormed(data) == [ok |-> TRUE, data |-> data]

Opt(key, v) == IF v = "absent" THEN <<>> ELSE key :> v

CustomToolchain == <<"custom", "cmake">>

\* the mappings a well-formed config file can hold
FileData(platforms, tool_names, types, overrides) ==
    { Opt("platform", p) @@ Opt("build_tool", t) @@ Opt("build_type", b)
        @@ (IF o THEN "cmake-toolchain" :> CustomToolchain ELSE <<>>) :
      p \in platforms, t \in tool_names, b \in types, o \in overrides }

\* every way to put files with the given contents under some of the names
FilesUnder(names, contents) == UNION { [ns -> contents] : ns \in SUBSET names }
DirContents(contents) == FilesUnder(Names, contents)

AllProjs(n) == {WorkProj} \cup {Imp(i) : i \in 1..n}

\* toolchain directories, in the order of the layers
TcLayerDirs(n) ==
    {<<p, "toolchains">> : p \in AllProjs(n)} \cup {FipsToolchainsDir}

TcFileNames == {<<"emscripten", "toolchain.cmake">>, CustomToolchain}

NoCall == [op |-> "none"]
\* no verb runs; cleaned: the configs whose directories the last
\* invocation, a clean, removed
NoVerb == [pc |-> "idle", runs |-> 0, cleaned |-> {}]

\* the files of the .idea directory: <proj>.iml, misc.xml, modules.xml,
\* workspace.xml; no .idea directory
IdeaNames == {"iml", "misc.xml", "modules.xml", "workspace.xml"}
NoIdea == [dir |-> FALSE, files |-> <<>>]

IdleVerbs ==
    /\ buildDirs = [n \in Names |-> "none"]
    /\ deployDirs = [n \in Names |-> "none"]
    /\ vb = NoVerb
    /\ adapterLog = <<>>
    /\ ideaFiles = NoIdea

\* Layered config directories, for load.
InitLoad ==
    /\ proj_dir \in {fips_dir, WorkProj}
    /\ \E n \in 0..MaxImports, ok \in BOOLEAN :
          /\ imported = [success |-> ok, projs |-> ImpSeq(n)]
          /\ \E ds \in SUBSET {<<Imp(i), "configs">> : i \in 1..n} :
                cfgFiles \in [ds \cup {FipsConfigsDir} ->
                                FilesUnder(LoadNames, {Malformed,
                                             WellFormed(("platform" :> "linux")
                                                 @@ ("build_tool" :> "make")
                                                 @@ ("build_type" :> "Debug"))})]
    /\ globOrder \in {<<<<"a">>, <<"a", "b">>, <<"b">>>>,
                      <<<<"b">>, <<"a", "b">>, <<"a">>>>}
    /\ tcFiles = {} /\ tcDirs = {}
    /\ sdks = {} /\ tools = {"make"}
    /\ call = NoCall
    /\ IdleVerbs

\* the optional keys of a config, and the keys the loader sets
OptionalKeys == {"generator", "generator-platform", "generator-toolset", "defines"}
LoaderKeys   == {"name", "folder", "path"}

\* config files that specify some of the optional keys, and some that also
\* carry name, folder and path keys of their own
PatchData ==
    { (IF own THEN ("name" :> <<"z">>) @@ ("folder" :> <<"elsewhere">>)
                       @@ ("path" :> <<"elsewhere">>)
       ELSE <<>>)
        @@ [k \in ks |-> IF k = "generator" THEN "Ninja" ELSE "given"]
        @@ ("platform" :> "linux") @@ ("build_tool" :> "make")
        @@ ("build_type" :> "Debug") :
      own \in BOOLEAN, ks \in SUBSET OptionalKeys }

\* One or two config directories with files of PatchData, for load's patch
\* of the loaded mapping.
InitPatch ==
    /\ proj_dir = WorkProj
    /\ \E n \in 0..1 :
          /\ imported = [success |-> TRUE, projs |-> ImpSeq(n)]
          /\ \E f \in {WellFormed(d) : d \in PatchData} :
                cfgFiles \in [{<<Imp(i), "configs">> : i \in 1..n}
                                 \cup {FipsConfigsDir} ->
                                   FilesUnder({<<"a">>}, {f})]
    /\ globOrder = <<<<"a">>, <<"a", "b">>, <<"b">>>>
    /\ tcFiles = {} /\ tcDirs = {}
    /\ sdks = {} /\ tools \in SUBSET {"make"}
    /\ call = NoCall
    /\ IdleVerbs

\* One config file of any content, toolchain files in the layers, and the
\* SDKs and tools installed or not, for get_toolchain and check_config_valid.
InitValid ==
    /\ proj_dir = WorkProj
    /\ \E n \in 1..MaxImports :
          /\ imported = [success |-> TRUE, projs |-> ImpSeq(n)]
          /\ tcFiles \in {fs \in SUBSET (TcLayerDirs(n) \X TcFileNames) :
                              Cardinality(fs) <= MaxTcFiles}
          /\ tcDirs \in {AllProjs(n),
                         {p \in AllProjs(n) :
                              \E f \in tcFiles : f[1] = <<p, "toolchains">>}}
    /\ \E d \in FileData({"absent", "linux", "emscripten"},
                         {"absent", "make", "scons"}, {"absent", "Debug"}, BOOLEAN) :
          cfgFiles = (FipsConfigsDir :> (<<"a">> :> WellFormed(d)))
    /\ globOrder = <<<<"a">>, <<"a", "b">>, <<"b">>>>
    /\ sdks \in SUBSET {"emscripten"}
    /\ tools \in SUBSET {"make"}
    /\ call = NoCall
    /\ IdleVerbs

(***************************************************************************)
(* Calls of the config.py functions: one call per run of the program, its  *)
(* arguments and its result recorded in call.                              *)
(***************************************************************************)
CallLoad ==
    /\ call = NoCall
    /\ \E pattern \in Patterns :
          call' = [op |-> "load", pattern |-> pattern, out |-> load(pattern)]
    /\ UNCHANGED <<fsVars, buildDirs, deployDirs, vb, adapterLog>>

\* the configs a load can hand to the other functions
LoadedConfigs ==
    UNION { LET r == load(pattern)
            IN IF r.raised THEN {} ELSE {r.configs[i] : i \in 1..Len(r.configs)} :
            pattern \in Patterns }

CallGetToolchain ==
    /\ call = NoCall
    /\ \E cfg \in LoadedConfigs :
          call' = [op |-> "get_toolchain", cfg |-> cfg, out |-> get_toolchain(cfg)]
    /\ UNCHANGED <<fsVars, buildDirs, deployDirs, vb, adapterLog>>

CallCheckConfigValid ==
    /\ call = NoCall
    /\ \E cfg \in LoadedConfigs, print_errors \in BOOLEAN :
          call' = [op |-> "check_config_valid", cfg |-> cfg,
                   print_errors |-> print_errors,
                   out |-> check_config_valid(cfg, print_errors)]
    /\ UNCHANGED <<fsVars, buildDirs, deployDirs, vb, adapterLog>>

CallGetConfigDirs ==
    /\ call = NoCall
    /\ call' = [op |-> "get_config_dirs", out |-> get_config_dirs]
    /\ UNCHANGED <<fsVars, buildDirs, deployDirs, vb, adapterLog>>

CallList ==
    /\ call = NoCall
    /\ \E pattern \in Patterns :
          call' = [op |-> "list", pattern |-> pattern, out |-> list(pattern)]
    /\ UNCHANGED <<fsVars, buildDirs, deployDirs, vb, adapterLog>>

NextConfig ==
    \/ CallLoad \/ CallGetToolchain \/ CallCheckConfigValid
    \/ CallGetConfigDirs \/ CallList

SpecLoad  == InitLoad /\ [][NextConfig]_vars
SpecPatch == InitPatch /\ [][NextConfig]_vars
SpecValid == InitValid /\ [][NextConfig]_vars

(***************************************************************************)
(* Properties of load, get_toolchain and check_config_valid                *)
(***************************************************************************)
Min(S) == CHOOSE x \in S : \A y \in S : x <= y

\* the config directories, by priority, holding a file named n that the
\* pattern matches
MatchLayers(pattern, n) ==
    {i \in 1..Len(get_config_dirs) :
        n \in DOMAIN cfgFiles[get_config_dirs[i]] /\ fnmatch(n, pattern)}

\* C1: in the result of load no two configs share a name, and a name found
\* in several layers is loaded once, with the folder and path of the earliest
\* (highest-priority) layer.
C1_FirstLayerWins ==
    (call.op = "load" /\ ~call.out.raised) =>
        LET cs   == call.out.configs
            dirs == get_config_dirs
        IN /\ \A i, j \in 1..Len(cs) : cs[i]["name"] = cs[j]["name"] => i = j
           /\ \A n \in Names :
                LET L == MatchLayers(call.pattern, n)
                IN L # {} =>
                     \E i \in 1..Len(cs) :
                        /\ cs[i]["name"] = n
                        /\ cs[i]["folder"] = dirs[Min(L)]
                        /\ cs[i]["path"] = YmlPath(dirs[Min(L)], n)

C1_Witness ==
    /\ call.op = "load" /\ ~call.out.raised
    /\ \E n \in Names : Cardinality(MatchLayers(call.pattern, n)) >= 2

\* the toolchain layers in the order of the search: the project, each
\* imported project, the base installation
TcLayers ==
    <<get_toolchains_dir(proj_dir)>>
        \o [i \in 1..Len(imported.projs) |-> get_toolchains_dir(imported.projs[i])]
        \o <<FipsToolchainsDir>>

\* the layers, by priority, that hold the file
TcHits(file) ==
    {i \in 1..Len(TcLayers) : TcLayers[i] # NoPath /\ <<TcLayers[i], file>> \in tcFiles}

NativeCfg(cfg)    == "platform" \in DOMAIN cfg /\ cfg["platform"] \in native_platforms
NonNativeCfg(cfg) == "platform" \in DOMAIN cfg /\ cfg["platform"] \notin native_platforms

\* the file name the config asks for
WantedToolchain(cfg) ==
    IF "cmake-toolchain" \in DOMAIN cfg THEN cfg["cmake-toolchain"]
    ELSE <<cfg["platform"], "toolchain.cmake">>

\* C2: for a config of a native platform get_toolchain returns None whatever
\* the toolchain directories hold, an override or a matching file included.
C2_NativeNoToolchain ==
    (call.op = "get_toolchain" /\ NativeCfg(call.cfg)) =>
        call.out = Return(NoPath)

C2_Witness ==
    /\ call.op = "get_toolchain" /\ NativeCfg(call.cfg)
    /\ "cmake-toolchain" \in DOMAIN call.cfg
    /\ TcHits(call.cfg["cmake-toolchain"]) # {}

\* C3: for a non-native platform get_toolchain returns the file's path in
\* the first layer, in the order project, imported projects, base
\* installation, that holds the file.
C3_FirstToolchainLayer ==
    (call.op = "get_toolchain" /\ NonNativeCfg(call.cfg)) =>
        LET file == WantedToolchain(call.cfg)
            hits == TcHits(file)
        IN hits # {} => call.out = Return(<<TcLayers[Min(hits)], file>>)

\* the file lies only in the last of three layers and is returned from there
C3_Witness ==
    /\ call.op = "get_toolchain" /\ NonNativeCfg(call.cfg)
    /\ Len(TcLayers) = 3
    /\ TcHits(WantedToolchain(call.cfg)) = {3}
    /\ call.out = Return(<<FipsToolchainsDir, WantedToolchain(call.cfg)>>)

\* C4: for a non-native platform with the file in no layer get_toolchain
\* returns None, and check_config_valid of a config that has a build_tool
\* returns valid = False with the toolchain-not-found message.
C4_ToolchainNotFound ==
    LET nowhere(cfg) == NonNativeCfg(cfg) /\ TcHits(WantedToolchain(cfg)) = {}
    IN /\ (call.op = "get_toolchain" /\ nowhere(call.cfg)) =>
              call.out = Return(NoPath)
       /\ (call.op = "check_config_valid" /\ nowhere(call.cfg)
              /\ "build_tool" \in DOMAIN call.cfg) =>
              /\ call.out.kind = "return"
              /\ call.out.valid = FALSE
              /\ MsgNoToolchain(call.cfg["name"]) \in SeqToSet(call.out.messages)

\* the toolchain is the only thing wrong with the config
C4_Witness ==
    /\ call.op = "check_config_valid"
    /\ NonNativeCfg(call.cfg) /\ TcHits(WantedToolchain(call.cfg)) = {}
    /\ call.out.kind = "return"
    /\ call.out.messages = <<MsgNoToolchain(call.cfg["name"])>>

\* C5: a config missing build_type (the fields the later checks read being
\* there) is invalid with a message naming build_type, and every other check
\* that fails on it adds its message to the same list.
C5_NoShortCircuit ==
    (call.op = "check_config_valid" /\ "build_type" \notin DOMAIN call.cfg
        /\ {"platform", "build_tool"} \subseteq DOMAIN call.cfg) =>
        LET cfg  == call.cfg
            msgs == SeqToSet(call.out.messages)
        IN /\ call.out.kind = "return"
           /\ call.out.valid = FALSE
           /\ MsgMissingField("build_type", cfg["path"]) \in msgs
           /\ (cfg["platform"] \in {"emscripten", "android"} /\ cfg["platform"] \notin sdks)
                 => MsgSdk(cfg["platform"]) \in msgs
           /\ cfg["build_tool"] \notin build_tools
                 => MsgInvalidTool(cfg["build_tool"], cfg["path"]) \in msgs
           /\ cfg["build_tool"] \notin (build_tools \cap tools)
                 => MsgToolNotFound(cfg["build_tool"]) \in msgs
           /\ (NonNativeCfg(cfg) /\ TcHits(WantedToolchain(cfg)) = {})
                 => MsgNoToolchain(cfg["name"]) \in msgs

\* all five checks fail on the same config
C5_Witness ==
    /\ call.op = "check_config_valid" /\ "build_type" \notin DOMAIN call.cfg
    /\ call.out.kind = "return"
    /\ Len(call.out.messages) = 5

\* C6: whatever required fields are missing, check_config_valid returns
\* normally with one 'missing field' message per missing field and
\* valid = False.
C6_MissingFieldsReported ==
    call.op = "check_config_valid" =>
        LET missing == {f \in SeqToSet(required_fields) : f \notin DOMAIN call.cfg}
        IN /\ call.out.kind = "return"
           /\ \A f \in missing :
                Cardinality({i \in 1..Len(call.out.messages) :
                    call.out.messages[i] = MsgMissingField(f, call.cfg["path"])}) = 1
           /\ missing # {} => call.out.valid = FALSE

(***************************************************************************)
(* mod/tools/clion.py: the writers of the .idea files.  A file's content   *)
(* is "old" (what was there before) or "clion" (what the writer writes).   *)
(***************************************************************************)
\* open(path, 'w') and the writes: the file holds what the writer wrote
write_file(files, name) == (name :> "clion") @@ files

\* lines 60-86: <proj>.iml, misc.xml and modules.xml, unless the .iml exists
write_clion_module_files(files) ==
    IF "iml" \in DOMAIN files THEN files
    ELSE write_file(write_file(write_file(files, "iml"), "misc.xml"), "modules.xml")

\* lines 89-121: workspace.xml, unless it exists
write_clion_workspace_file(files) ==
    IF "workspace.xml" \in DOMAIN files THEN files
    ELSE write_file(files, "workspace.xml")

\* lines 113-121: clion.write_workspace_settings
write_workspace_settings(idea) ==
    [dir |-> TRUE,
     files |-> write_clion_workspace_file(write_clion_module_files(idea.files))]

(***************************************************************************)
(* mod/project.py: gen_project                                             *)
(***************************************************************************)
Invoked(adapter, op) == [adapter |-> adapter, op |-> op]

\* what cmake.run_gen can do: succeed (CMakeCache.txt written), or fail
\* with or without a cache file left behind
RunGenOutcomes ==
    {[ok |-> TRUE, cache |-> TRUE], [ok |-> FALSE, cache |-> TRUE],
     [ok |-> FALSE, cache |-> FALSE]}

\* what a build adapter's run_build can do: succeed or fail, having put
\* artifacts into the deploy directory or not
RunBuildOutcomes ==
    {[ok |-> TRUE, deployed |-> TRUE], [ok |-> TRUE, deployed |-> FALSE],
     [ok |-> FALSE, deployed |-> FALSE]}

\* lines 79-80: os.makedirs of a missing build directory
gen_makedirs(dir) == IF dir = "none" THEN "empty" ELSE dir

\* A mutation of gen_do_it: generation is never skipped.
gen_do_it_always(force, dir) == TRUE

\* A mutation of gen_do_it: the cache marker is not looked at.
gen_do_it_forced_only(force, dir) == force

\* lines 78-83: do_it, for the build directory as it is after makedirs
gen_do_it(force, dir) == force \/ dir # "cached"

\* lines 61-99; run_gen is what cmake.run_gen does if it is invoked
gen_project(cfg, force, run_gen) ==
    LET entry == buildDirs[cfg["name"]]
        dir   == gen_makedirs(entry)
        made  == [buildDirs EXCEPT ![cfg["name"]] = dir]
    IN IF ~gen_do_it(force, dir)
       THEN [out |-> Return(TRUE), dirs |-> made, log |-> <<>>, idea |-> ideaFiles]
       ELSE LET toolchain_path == get_toolchain(cfg)
                log == (IF cfg["build_tool"] = "ninja"
                        THEN <<Invoked("ninja", "prepare_ninja_tool")>> ELSE <<>>)
                       \o <<Invoked("cmake", "run_gen")>>
                       \o (IF cfg["build_tool"] = "vscode_cmake"
                           THEN <<Invoked("vscode", "write_workspace_settings")>>
                           ELSE <<>>)
                       \o (IF cfg["build_tool"] = "clion"
                           THEN <<Invoked("clion", "write_workspace_settings")>>
                           ELSE <<>>)
            IN IF toolchain_path.kind # "return"
               THEN [out |-> toolchain_path, dirs |-> made, log |-> <<>>,
                     idea |-> ideaFiles]
               ELSE [out  |-> Return(run_gen.ok),
                     dirs |-> [made EXCEPT ![cfg["name"]] =
                                  IF run_gen.cache THEN "cached" ELSE dir],
                     log  |-> log,
                     idea |-> IF cfg["build_tool"] = "clion"
                              THEN write_workspace_settings(ideaFiles)
                              ELSE ideaFiles]

\* A mutation of dispatch: everything is built by cmake.
dispatch_cmake_only(build_tool) == "cmake"

\* lines 257-264 and 196-203: the adapter a build_tool is dispatched to
dispatch(build_tool) ==
    IF build_tool = "make" THEN "make"
    ELSE IF build_tool = "ninja" THEN "ninja"
    ELSE IF build_tool = "xcodebuild" THEN "xcodebuild"
    ELSE "cmake"

(***************************************************************************)
(* mod/project.py: the verbs gen, build, make_clean, clean and run.  A     *)
(* verb loads the configs, handles them one by one and ends with its       *)
(* tally; a fatal log.error ends the process where it is called.           *)
(***************************************************************************)
Verbs == {"gen", "build", "make_clean", "clean", "run"}

Running        == [kind |-> "running"]
ReturnNone     == [kind |-> "return None"]
ReturnCode(rc) == [kind |-> "return code", code |-> rc]
Raised(exc)    == [kind |-> exc]

NoGen == [called |-> FALSE]

Error(msg, subject) == [msg |-> msg, subject |-> subject]

\* util.get_host_platform()
HostPlatforms == {"osx", "linux", "win", "other"}

\* the configs the pattern matched, or the exception load left with
VerbStart ==
    /\ vb.pc = "idle"
    /\ vb.runs < MaxRuns
    /\ \E verb \in Verbs, cfg_name \in {<<"*">>, <<"a", "*">>},
          target_cwd \in {"None", "cwd"}, host \in HostPlatforms :
          /\ verb # "run" => (target_cwd = "None" /\ host = "linux")
          /\ LET r == load(cfg_name)
             IN vb' = [pc |-> IF r.raised THEN "done" ELSE "loaded",
                       runs |-> vb.runs,
                       cleaned |-> vb.cleaned,
                       cwd_arg |-> <<target_cwd>>,
                       verb |-> verb,
                       cfg_name |-> cfg_name,
                       configs |-> r.configs,
                       i |-> 1,
                       num |-> 0,
                       results |-> <<>>,
                       errors |-> <<>>,
                       report |-> <<>>,
                       gen |-> NoGen,
                       host |-> host,
                       target_cwd |-> <<target_cwd>>,
                       cmd_line |-> <<>>,
                       retcode |-> 10,
                       interrupt |-> "none",
                       out |-> IF r.raised THEN Raised("AttributeError") ELSE Running]
    /\ adapterLog' = <<>>
    /\ UNCHANGED <<fsVars, call, buildDirs, deployDirs>>

\* log.error(msg, fatal): the message is printed; a fatal one ends the process
LogError(v, msg, subject, fatal) ==
    LET w == [v EXCEPT !.errors = Append(@, Error(msg, subject))]
    IN IF log_error(fatal) THEN [w EXCEPT !.pc = "done", !.out = Exit10] ELSE w

Alive(v) == v.pc # "done"

\* gen 131-132, make_clean 211-212, build 272-273, run 370-371,
\* clean 405-406: no config matched.  Were the error not fatal, gen, build
\* and make_clean would go on to their tally, run to "return retcode" and
\* clean to its end.
VerbNoConfigs ==
    /\ vb.pc = "loaded"
    /\ vb.configs = <<>>
    /\ LET w == LogError(vb, "No configs found", vb.cfg_name, TRUE)
       IN vb' = IF ~Alive(w) THEN w
                ELSE IF vb.verb = "run"
                     THEN [w EXCEPT !.pc = "done", !.out = ReturnCode(w.retcode)]
                ELSE IF vb.verb = "clean"
                     THEN [w EXCEPT !.pc = "done", !.out = ReturnNone]
                ELSE [w EXCEPT !.pc = "loop"]
    /\ UNCHANGED <<fsVars, call, buildDirs, deployDirs, adapterLog>>

\* the for loop is entered
VerbLoop ==
    /\ vb.pc = "loaded"
    /\ vb.configs # <<>>
    /\ vb' = [vb EXCEPT !.pc = "loop"]
    /\ UNCHANGED <<fsVars, call, buildDirs, deployDirs, adapterLog>>

\* the pass of the loop for a config ends: "ok", "failed" or "invalid"
Pass(v, result) ==
    [v EXCEPT !.i = @ + 1, !.results = Append(@, result)]

\* num_valid_configs += 1
Succeeded(v) == [Pass(v, "ok") EXCEPT !.num = @ + 1]

Ended(v, out) == [v EXCEPT !.pc = "done", !.out = out]

GenRecord(cfg, force, g) ==
    [called |-> TRUE, cfg |-> cfg["name"], force |-> force,
     entry |-> buildDirs[cfg["name"]], out |-> g.out, log |-> g.log,
     idea |-> ideaFiles]

\* gen, lines 121-130: one pass of the loop
GenStep ==
    /\ vb.pc = "loop" /\ vb.verb = "gen" /\ vb.i <= Len(vb.configs)
    /\ LET cfg == vb.configs[vb.i]
           v   == check_config_valid(cfg, TRUE)
       IN IF v.kind # "return"
          THEN /\ vb' = Ended(vb, v)
               /\ UNCHANGED <<buildDirs, adapterLog, ideaFiles>>
          ELSE IF v.valid
          THEN \E run_gen \in RunGenOutcomes :
                 LET g == gen_project(cfg, TRUE, run_gen)
                     w == [vb EXCEPT !.gen = GenRecord(cfg, TRUE, g)]
                 IN /\ buildDirs' = g.dirs
                    /\ ideaFiles' = g.idea
                    /\ adapterLog' = g.log
                    /\ vb' = IF g.out.kind # "return" THEN Ended(w, g.out)
                             ELSE IF g.out.value THEN Succeeded(w)
                             ELSE Pass(LogError(w, "failed to generate build files",
                                                cfg["name"], FALSE), "failed")
          ELSE /\ vb' = Pass(LogError(vb, "is not a valid config", cfg["name"], FALSE),
                             "invalid")
               /\ adapterLog' = <<>>
               /\ UNCHANGED <<buildDirs, ideaFiles>>
    /\ UNCHANGED <<cfgVars, call, deployDirs>>

\* build, lines 244-271: one pass of the loop
BuildStep ==
    /\ vb.pc = "loop" /\ vb.verb = "build" /\ vb.i <= Len(vb.configs)
    /\ LET cfg == vb.configs[vb.i]
           v   == check_config_valid(cfg, TRUE)
       IN IF v.kind # "return"
          THEN /\ vb' = Ended(vb, v)
               /\ UNCHANGED <<buildDirs, deployDirs, adapterLog, ideaFiles>>
          ELSE IF v.valid
          THEN \E run_gen \in RunGenOutcomes, run_build \in RunBuildOutcomes :
                 LET g  == gen_project(cfg, FALSE, run_gen)
                     w  == [vb EXCEPT !.gen = GenRecord(cfg, FALSE, g)]
                     w2 == IF g.out.kind = "return" /\ ~g.out.value
                           THEN LogError(w, "Failed to generate", cfg["name"], TRUE)
                           ELSE w
                     b  == Invoked(dispatch(cfg["build_tool"]), "run_build")
                 IN /\ buildDirs' = g.dirs
                    /\ ideaFiles' = g.idea
                    /\ IF g.out.kind # "return"
                       THEN /\ vb' = Ended(w, g.out)
                            /\ adapterLog' = g.log
                            /\ UNCHANGED deployDirs
                       ELSE IF ~Alive(w2)
                       THEN /\ vb' = w2
                            /\ adapterLog' = g.log
                            /\ UNCHANGED deployDirs
                       ELSE /\ adapterLog' = Append(g.log, b)
                            /\ deployDirs' = IF run_build.deployed
                                             THEN [deployDirs EXCEPT ![cfg["name"]] = "dir"]
                                             ELSE deployDirs
                            /\ vb' = IF run_build.ok THEN Succeeded(w2)
                                     ELSE Pass(LogError(w2, "Failed to build config",
                                                        cfg["name"], TRUE), "failed")
          ELSE /\ vb' = Pass(LogError(vb, "not valid in this environment",
                                      cfg["name"], TRUE), "invalid")
               /\ adapterLog' = <<>>
               /\ UNCHANGED <<buildDirs, deployDirs, ideaFiles>>
    /\ UNCHANGED <<cfgVars, call>>

\* make_clean, lines 189-210: one pass of the loop
MakeCleanStep ==
    /\ vb.pc = "loop" /\ vb.verb = "make_clean" /\ vb.i <= Len(vb.configs)
    /\ LET cfg == vb.configs[vb.i]
           v   == check_config_valid(cfg, TRUE)
       IN IF v.kind # "return"
          THEN /\ vb' = Ended(vb, v)
               /\ UNCHANGED adapterLog
          ELSE IF v.valid
          THEN \E run_clean \in BOOLEAN :
                 /\ adapterLog' = <<Invoked(dispatch(cfg["build_tool"]), "run_clean")>>
                 /\ vb' = IF run_clean THEN Succeeded(vb)
                          ELSE Pass(LogError(vb, "Failed to clean config",
                                             cfg["name"], TRUE), "failed")
          ELSE /\ vb' = Pass(LogError(vb, "not valid in this environment",
                                      cfg["name"], TRUE), "invalid")
               /\ adapterLog' = <<>>
    /\ UNCHANGED <<fsVars, call, buildDirs, deployDirs>>

\* A mutation of tally_ok: one success is enough.
tally_ok_any(v) == v.num > 0

\* gen 134, make_clean 214, build 275
tally_ok(v) == v.num = Len(v.configs)

\* gen 134-141, make_clean 214-221, build 275-282: the tally; the error
\* report is a fatal log.error, so "return False" is not reached
VerbTally ==
    /\ vb.pc = "loop" /\ vb.i > Len(vb.configs)
    /\ vb.verb \in {"gen", "build", "make_clean"}
    /\ vb' = IF ~tally_ok(vb)
             THEN LET w == LogError([vb EXCEPT !.report =
                                        <<Len(vb.configs) - vb.num, Len(vb.configs)>>],
                                    "configs failed", vb.cfg_name, TRUE)
                  IN IF Alive(w) THEN Ended(w, Return(FALSE)) ELSE w
             ELSE Ended(vb, Return(TRUE))
    /\ UNCHANGED <<fsVars, call, buildDirs, deployDirs, adapterLog>>

\* clean, lines 386-402: one pass of the loop
CleanStep ==
    /\ vb.pc = "loop" /\ vb.verb = "clean" /\ vb.i <= Len(vb.configs)
    /\ LET name == vb.configs[vb.i]["name"]
           build_dir_exists  == buildDirs[name] # "none"
           deploy_dir_exists == deployDirs[name] # "none"
       IN /\ vb' = [Pass(vb, IF build_dir_exists \/ deploy_dir_exists
                             THEN "cleaned" ELSE "nothing")
                       EXCEPT !.num = IF build_dir_exists \/ deploy_dir_exists
                                      THEN @ + 1 ELSE @]
          /\ buildDirs' = [buildDirs EXCEPT ![name] = "none"]
          /\ deployDirs' = [deployDirs EXCEPT ![name] = "none"]
          /\ adapterLog' = (IF build_dir_exists
                            THEN <<Invoked("shutil", "rmtree build_dir")>> ELSE <<>>)
                           \o (IF deploy_dir_exists
                               THEN <<Invoked("shutil", "rmtree deploy_dir")>> ELSE <<>>)
    /\ UNCHANGED <<fsVars, call>>

\* A mutation of nothing_to_clean: the message is never printed.
nothing_to_clean_never(v) == FALSE

\* clean, line 403: num_cleaned_configs == 0
nothing_to_clean(v) == v.num = 0

\* clean, lines 403-404, and the end of the function
CleanEnd ==
    /\ vb.pc = "loop" /\ vb.verb = "clean" /\ vb.i > Len(vb.configs)
    /\ vb' = [vb EXCEPT !.pc = "done", !.out = ReturnNone,
                        !.report = IF nothing_to_clean(vb)
                                   THEN <<"nothing to clean">> ELSE <<>>]
    /\ UNCHANGED <<fsVars, call, buildDirs, deployDirs, adapterLog>>

Launch(cmd, cwd) == [adapter |-> "subprocess", op |-> "call", cmd |-> cmd, cwd |-> cwd]

\* the three launches of the android branch, lines 344-352
AdbLaunches(deploy_dir) ==
    <<Launch(<<"adb install">>, deploy_dir), Launch(<<"adb start">>, <<>>),
      Launch(<<"adb logcat">>, <<>>)>>

\* A mutation of on_interrupt: the KeyboardInterrupt is not caught.
on_interrupt_propagates(v, launch) ==
    Ended([v EXCEPT !.interrupt = launch], Raised("KeyboardInterrupt"))

\* lines 322-323, 328-329, 337-338, 355-356: except KeyboardInterrupt:
\* return 0
on_interrupt(v, launch) ==
    Ended([v EXCEPT !.interrupt = launch], ReturnCode(0))

\* run, lines 301-369: one pass of the loop.  interrupt: the user stops the
\* launch with Ctrl-C (in the android branch during launch number stage);
\* is_app: '<deploy_dir>/<target>.app' is a directory; rc: what the
\* launched process ends with, or "OSError".  The KeyboardInterrupt of a
\* native launch (line 367) is caught nowhere.
RunStep ==
    /\ vb.pc = "loop" /\ vb.verb = "run" /\ vb.i <= Len(vb.configs)
    /\ \E interrupt \in BOOLEAN, is_app \in BOOLEAN, rc \in {"0", "1", "OSError"},
          stage \in 1..3 :
         LET cfg        == vb.configs[vb.i]
             deploy_dir == <<"deploy", cfg["name"]>>
             target_cwd == IF vb.target_cwd = <<"None">> THEN deploy_dir
                           ELSE vb.target_cwd
             w          == [vb EXCEPT !.target_cwd = target_cwd]
             launched(v, cmd) ==
                 IF interrupt
                 THEN Ended([v EXCEPT !.interrupt = "native"],
                            Raised("KeyboardInterrupt"))
                 ELSE IF rc = "OSError"
                 THEN Pass(LogError(v, "Failed to execute", cfg["name"], TRUE), "failed")
                 ELSE Pass([v EXCEPT !.retcode = IF rc = "0" THEN 0 ELSE 1], "launched")
             platform   == IF "platform" \in DOMAIN cfg THEN cfg["platform"] ELSE None
             native     == platform \notin {None, "emscripten", "android"}
             relaunch   == platform = "emscripten" /\ vb.host # "other"
                              /\ vb.cmd_line # <<>>
             \* the choices that the branch taken does not look at are fixed
             used       == /\ ~native => ~is_app
                           /\ (interrupt \/ ~(native \/ relaunch)) => rc = "0"
                           /\ ~(interrupt /\ platform = "android") => stage = 1
                           /\ (platform = None
                                  \/ (platform = "emscripten" /\ vb.host = "other"))
                                 => ~interrupt
         IN /\ used
            /\ IF "platform" \notin DOMAIN cfg
               THEN vb' = Ended(w, KeyError("platform")) /\ adapterLog' = <<>>
               ELSE IF cfg["platform"] = "emscripten"
               THEN IF vb.host = "other"
                    THEN /\ vb' = LogError(w, "don't know how to start HTML app", <<>>, TRUE)
                         /\ adapterLog' = <<>>
                    ELSE IF interrupt
                    THEN /\ vb' = on_interrupt(w, "web")
                         /\ adapterLog' = <<Launch(<<"open html">>, target_cwd)>>
                    ELSE IF w.cmd_line = <<>>
                    THEN /\ vb' = Ended(w, Raised("UnboundLocalError"))
                         /\ adapterLog' = <<Launch(<<"open html">>, target_cwd)>>
                    ELSE /\ vb' = launched(w, w.cmd_line)
                         /\ adapterLog' = <<Launch(<<"open html">>, target_cwd),
                                            Launch(w.cmd_line, target_cwd)>>
               ELSE IF cfg["platform"] = "android"
               THEN IF interrupt
                    THEN /\ vb' = on_interrupt(w, "mobile")
                         /\ adapterLog' = SubSeq(AdbLaunches(deploy_dir), 1, stage)
                    ELSE /\ vb' = Ended(w, ReturnCode(0))
                         /\ adapterLog' = AdbLaunches(deploy_dir)
               ELSE LET cmd_line == IF is_app THEN <<"app", deploy_dir>>
                                    ELSE <<"exe", deploy_dir>>
                    IN /\ vb' = launched([w EXCEPT !.cmd_line = cmd_line], cmd_line)
                       /\ adapterLog' = <<Launch(cmd_line, target_cwd)>>
    /\ UNCHANGED <<fsVars, call, buildDirs, deployDirs>>

\* run, line 373
RunEnd ==
    /\ vb.pc = "loop" /\ vb.verb = "run" /\ vb.i > Len(vb.configs)
    /\ vb' = Ended(vb, ReturnCode(vb.retcode))
    /\ UNCHANGED <<fsVars, call, buildDirs, deployDirs, adapterLog>>

\* the process has ended; the next invocation finds the directories as
\* this one left them
VerbExit ==
    /\ vb.pc = "done"
    /\ vb' = [pc |-> "idle", runs |-> vb.runs + 1,
              cleaned |-> IF vb.verb = "clean"
                          THEN {vb.configs[i]["name"] :
                                  i \in {j \in 1..Len(vb.results) :
                                            vb.results[j] = "cleaned"}}
                          ELSE {}]
    /\ adapterLog' = <<>>
    /\ UNCHANGED <<fsVars, call, buildDirs, deployDirs>>

\* One directory of configs: under each name no file, a config that is
\* valid here (linux with make, which is installed), one that is not (scons
\* is no build tool) or a cross-platform one.  No build directory exists yet.
InitVerbs ==
    /\ proj_dir = WorkProj
    /\ imported = [success |-> TRUE, projs |-> <<>>]
    /\ \E files \in DirContents(
              {WellFormed(d) :
                   d \in FileData({"linux"}, {"make", "scons"}, {"Debug"}, {FALSE})
                         \cup FileData({"emscripten", "android"}, {"make"}, {"Debug"},
                                       {FALSE})}) :
          cfgFiles = (FipsConfigsDir :> files)
    /\ globOrder \in {<<<<"a">>, <<"a", "b">>, <<"b">>>>,
                      <<<<"b">>, <<"a", "b">>, <<"a">>>>}
    /\ tcFiles = {} /\ tcDirs = {}
    /\ sdks = {} /\ tools = {"make"}
    /\ call = NoCall
    /\ IdleVerbs

\* One config file a.yml, of any build tool, all tools being installed;
\* a build and a deploy directory left by earlier invocations or not; for
\* a clion config, a .idea directory holding any of its files or none.
\* Or no config file at all.
InitTools ==
    /\ proj_dir = WorkProj
    /\ imported = [success |-> TRUE, projs |-> <<>>]
    /\ \/ /\ cfgFiles = (FipsConfigsDir :> <<>>)
          /\ ideaFiles = NoIdea
          /\ buildDirs = [n \in Names |-> "none"]
          /\ deployDirs = [n \in Names |-> "none"]
       \/ \E t \in build_tools :
             /\ cfgFiles = (FipsConfigsDir :>
                              (<<"a">> :> WellFormed(("platform" :> "linux")
                                             @@ ("build_tool" :> t)
                                             @@ ("build_type" :> "Debug"))))
             /\ \E ns \in SUBSET IdeaNames, dir \in BOOLEAN :
                   /\ ideaFiles = [dir |-> dir, files |-> [n \in ns |-> "old"]]
                   /\ ns # {} => dir
                   /\ t # "clion" => ~dir
             /\ buildDirs \in [Names -> {"none", "empty", "cached"}]
             /\ deployDirs \in [Names -> {"none", "dir"}]
             /\ \A n \in Names \ {<<"a">>} :
                   buildDirs[n] = "none" /\ deployDirs[n] = "none"
    /\ globOrder = <<<<"a">>, <<"a", "b">>, <<"b">>>>
    /\ tcFiles = {} /\ tcDirs = {}
    /\ sdks = {} /\ tools = build_tools
    /\ call = NoCall
    /\ vb = NoVerb
    /\ adapterLog = <<>>

Next ==
    \/ VerbStart \/ VerbNoConfigs \/ VerbLoop
    \/ GenStep \/ BuildStep \/ MakeCleanStep \/ VerbTally
    \/ CleanStep \/ CleanEnd
    \/ RunStep \/ RunEnd
    \/ VerbExit

Spec == InitVerbs /\ [][Next]_vars
SpecTools == InitTools /\ [][Next]_vars

(***************************************************************************)
(* Properties of the verbs                                                 *)
(***************************************************************************)
Count(q, x) == Cardinality({i \in 1..Len(q) : q[i] = x})

VerbDone(verbs) == vb.pc = "done" /\ vb.verb \in verbs

\* the matched configs that fail validation
InvalidAt(configs) ==
    {i \in 1..Len(configs) :
        LET v == check_config_valid(configs[i], FALSE)
        IN v.kind # "return" \/ ~v.valid}

\* C7: a build over 3 matched configs, one of them invalid and one failing
\* in the build adapter (no generation failing), handles all 3, reports
\* 2 out of 3 failed and returns False.
C7_BuildReportsTwoOfThree ==
    (VerbDone({"build"}) /\ Len(vb.configs) = 3
        /\ Cardinality(InvalidAt(vb.configs)) = 1
        /\ \A i \in 1..Len(vb.errors) : vb.errors[i].msg # "Failed to generate") =>
        /\ Len(vb.results) = 3
        /\ Count(vb.results, "failed") = 1 =>
              (vb.report = <<2, 3>> /\ vb.out = Return(FALSE))

\* C8 as stated: gen, build and make_clean succeed exactly when as many
\* configs succeeded as were matched; an invalid config counts as failed;
\* a reported failed count is matched minus succeeded.
C8_SuccessIffAllSucceeded ==
    VerbDone({"gen", "build", "make_clean"}) =>
        /\ (vb.out = Return(TRUE)) <=> (Count(vb.results, "ok") = Len(vb.configs))
        /\ Count(vb.results, "invalid") > 0 => vb.out # Return(TRUE)
        /\ vb.report # <<>> =>
              vb.report = <<Len(vb.configs) - Count(vb.results, "ok"), Len(vb.configs)>>

\* C8 amended: the same, when at least one config matched.
C8_SuccessIffAllSucceededOfSome ==
    (VerbDone({"gen", "build", "make_clean"}) /\ Len(vb.configs) >= 1) =>
        /\ (vb.out = Return(TRUE)) <=> (Count(vb.results, "ok") = Len(vb.configs))
        /\ Count(vb.results, "invalid") > 0 => vb.out # Return(TRUE)
        /\ vb.report # <<>> =>
              vb.report = <<Len(vb.configs) - Count(vb.results, "ok"), Len(vb.configs)>>

\* gen over three configs, one generated, one failing in cmake, one invalid
C8_Witness ==
    /\ VerbDone({"gen"})
    /\ Count(vb.results, "ok") = 1
    /\ Count(vb.results, "failed") = 1
    /\ Count(vb.results, "invalid") = 1
    /\ vb.report = <<2, 3>>
    /\ vb.out # Return(TRUE)

\* C9: a verb whose pattern matched no config reports an error and does
\* not end in success: the process ends in the fatal log.error.
C9_ZeroMatchesIsError ==
    (VerbDone(Verbs) /\ vb.configs = <<>> /\ vb.out.kind # "AttributeError") =>
        /\ vb.out = Exit10
        /\ vb.errors = <<Error("No configs found", vb.cfg_name)>>

C9_Witness ==
    /\ VerbDone({"run"})
    /\ vb.configs = <<>>
    /\ vb.out = Exit10

\* C10: gen_project invokes cmake.run_gen exactly when force is asked for,
\* or the build directory did not exist on entry, or it has no
\* CMakeCache.txt; otherwise it invokes nothing and returns True.
C10_GenerateIffStale ==
    (vb.pc # "idle" /\ vb.gen.called) =>
        LET stale == vb.gen.force \/ vb.gen.entry = "none" \/ vb.gen.entry = "empty"
        IN /\ (Invoked("cmake", "run_gen") \in SeqToSet(vb.gen.log)) <=> stale
           /\ ~stale => (vb.gen.log = <<>> /\ vb.gen.out = Return(TRUE))

\* a build of a config whose build directory holds the cache marker
C10_Witness ==
    /\ vb.pc # "idle" /\ vb.gen.called
    /\ ~vb.gen.force /\ vb.gen.entry = "cached"
    /\ vb.gen.log = <<>> /\ vb.gen.out = Return(TRUE)

\* every pass so far gave the result x
AllResults(x) == \A i \in 1..Len(vb.results) : vb.results[i] = x

\* C11: clean over matched configs none of which has a build or a deploy
\* directory deletes nothing, prints "nothing to clean" and ends without
\* an error: it returns (None) and the process does not exit with a failure.
C11_CleanNothingIsSuccess ==
    /\ (vb.pc \in {"loop", "done"} /\ vb.verb = "clean" /\ vb.results # <<>>
            /\ vb.results[Len(vb.results)] = "nothing") => adapterLog = <<>>
    /\ (VerbDone({"clean"}) /\ vb.configs # <<>> /\ AllResults("nothing")) =>
            /\ Len(vb.results) = Len(vb.configs)
            /\ vb.report = <<"nothing to clean">>
            /\ vb.out = ReturnNone
            /\ vb.errors = <<>>

\* a clean of two configs, neither with a directory
C11_Witness ==
    /\ VerbDone({"clean"})
    /\ Len(vb.configs) >= 2
    /\ AllResults("nothing")
    /\ vb.report = <<"nothing to clean">>
    /\ vb.out = ReturnNone

\* C12: in gen, build and make_clean a config that fails validation is
\* skipped with an error of its own and the configs after it are still
\* handled: the invocation never ends in the pass of an invalid config, it
\* goes on through the list to the tally.
C12_InvalidDoesNotAbort ==
    (VerbDone({"gen", "build", "make_clean"}) /\ vb.out.kind # "KeyError"
        /\ vb.results # <<>> /\ vb.results[Len(vb.results)] = "invalid") =>
        /\ \E i \in 1..Len(vb.errors) :
              vb.errors[i].subject = vb.configs[Len(vb.results)]["name"]
        /\ Len(vb.results) = Len(vb.configs)
        /\ vb.report # <<>>

\* the layers of MatchLayers whose file parses / does not parse
WellFormedLayers(pattern, n) ==
    {i \in MatchLayers(pattern, n) : cfgFiles[get_config_dirs[i]][n].ok}
MalformedLayers(pattern, n) ==
    {i \in MatchLayers(pattern, n) : ~cfgFiles[get_config_dirs[i]][n].ok}

\* C13: when a matched config file is malformed, load reports it without
\* ending, leaves it out, and returns every matched file that parses, of
\* the same layer and of the later ones (by name, the first such layer).
C13_MalformedSkipped ==
    (call.op = "load"
        /\ \E n \in Names : MalformedLayers(call.pattern, n) # {}) =>
        /\ ~call.out.raised
        /\ LET cs == call.out.configs
           IN /\ \A n \in Names :
                    WellFormedLayers(call.pattern, n) # {} =>
                       \E i \in 1..Len(cs) :
                          /\ cs[i]["name"] = n
                          /\ cs[i]["folder"] =
                                get_config_dirs[Min(WellFormedLayers(call.pattern, n))]
              /\ \A i \in 1..Len(cs) :
                    cfgFiles[cs[i]["folder"]][cs[i]["name"]].ok

\* the config whose pass of the loop ended last
LastHandled == vb.configs[Len(vb.results)]

\* C14: a config whose build_tool is no registered identifier is rejected
\* by check_config_valid (valid False, with the invalid-name message), and
\* gen, build and make_clean dispatch no adapter for it.
C14_UnknownToolNeverDispatched ==
    (vb.pc \in {"loop", "done"} /\ vb.verb \in {"gen", "build", "make_clean"}
        /\ vb.results # <<>>
        /\ LastHandled["build_tool"] \notin build_tools) =>
        LET v == check_config_valid(LastHandled, FALSE)
        IN /\ v.kind = "return" /\ ~v.valid
           /\ \E i \in 1..Len(v.messages) :
                 v.messages[i] = MsgInvalidTool(LastHandled["build_tool"],
                                                LastHandled["path"])
           /\ vb.results[Len(vb.results)] = "invalid"
           /\ adapterLog = <<>>
           /\ vb.gen = NoGen \/ vb.gen.cfg # LastHandled["name"]

\* a build that came to a config of build_tool scons
C14_Witness ==
    /\ vb.pc \in {"loop", "done"} /\ vb.verb = "build"
    /\ vb.results # <<>>
    /\ LastHandled["build_tool"] = "scons"
    /\ vb.results[Len(vb.results)] = "invalid"
    /\ adapterLog = <<>>

\* C15: check_config_valid gives the same (valid, messages) whether or not
\* it prints the messages, and valid is False exactly when there is a
\* message; a call that raises, raises the same in both modes.
C15_PrintIndependent ==
    call.op = "check_config_valid" =>
        LET p == check_config_valid(call.cfg, TRUE)
            q == check_config_valid(call.cfg, FALSE)
        IN /\ call.out \in {p, q}
           /\ p.kind = q.kind
           /\ p.kind = "return" =>
                 /\ p.valid = q.valid
                 /\ p.messages = q.messages
                 /\ p.valid <=> (p.messages = <<>>)
                 /\ q.valid <=> (q.messages = <<>>)
           /\ p.kind # "return" => p = q

\* a printing call that returned two messages or more
C15_Witness ==
    /\ call.op = "check_config_valid" /\ call.print_errors
    /\ call.out.kind = "return" /\ ~call.out.valid
    /\ Len(call.out.messages) >= 2
    /\ call.out.printed = call.out.messages

\* C16: every config load returns has name, folder and path as the loader
\* derives them from the file's path, whatever the file says under those
\* keys; each optional key holds the file's value if the file has the key,
\* else 'Default' for generator and None for the others.
C16_LoaderFields ==
    (call.op = "load" /\ ~call.out.raised) =>
        \A i \in 1..Len(call.out.configs) :
           LET c == call.out.configs[i]
           IN /\ (LoaderKeys \cup OptionalKeys) \subseteq DOMAIN c
              /\ \E dir \in SeqToSet(get_config_dirs) :
                  \E n \in DOMAIN cfgFiles[dir] :
                    LET d == cfgFiles[dir][n].data
                    IN /\ c["name"] = n
                       /\ c["folder"] = dir
                       /\ c["path"] = <<dir, <<n, "yml">>>>
                       /\ \A k \in OptionalKeys :
                             c[k] = IF k \in DOMAIN d THEN d[k]
                                    ELSE IF k = "generator" THEN "Default"
                                    ELSE "None"
                       /\ \A k \in DOMAIN d \ LoaderKeys : c[k] = d[k]

\* a loaded file that has a name key of its own and gives a generator but
\* no defines
C16_Witness ==
    /\ call.op = "load" /\ ~call.out.raised
    /\ \E i \in 1..Len(call.out.configs) :
          LET c == call.out.configs[i]
              d == cfgFiles[c["folder"]][c["name"]].data
          IN /\ "name" \in DOMAIN d /\ d["name"] # c["name"]
             /\ c["generator"] = "Ninja"
             /\ "defines" \notin DOMAIN d /\ c["defines"] = "None"

\* the configs directories that exist of the imported projects, in the
\* order the imports were resolved
ImportedConfigDirs ==
    LET has(p) == <<p, "configs">> \in DOMAIN cfgFiles
        ps == SelectSeq(imported.projs, has)
    IN [i \in 1..Len(ps) |-> <<ps[i], "configs">>]

\* C17 as stated: get_config_dirs always ends with the base installation's
\* configs directory, preceded by the imported projects' configs
\* directories in resolution order; for the base installation as project
\* it is the base configs directory alone.
C17_ConfigDirsLayers ==
    call.op = "get_config_dirs" =>
        /\ call.out[Len(call.out)] = <<fips_dir, "configs">>
        /\ proj_dir = fips_dir => call.out = <<<<fips_dir, "configs">>>>
        /\ proj_dir # fips_dir =>
              call.out = ImportedConfigDirs \o <<<<fips_dir, "configs">>>>

\* C17 amended: the imported projects' directories precede the base one
\* when the imports were resolved; when they were not (a missing import
\* directory), the list is the base configs directory alone.
C17_ConfigDirsLayersResolved ==
    call.op = "get_config_dirs" =>
        /\ call.out[Len(call.out)] = <<fips_dir, "configs">>
        /\ (proj_dir = fips_dir \/ ~imported.success) =>
              call.out = <<<<fips_dir, "configs">>>>
        /\ (proj_dir # fips_dir /\ imported.success) =>
              call.out = ImportedConfigDirs \o <<<<fips_dir, "configs">>>>

\* two imported projects with a configs directory each, then the base
C17_Witness ==
    /\ call.op = "get_config_dirs"
    /\ proj_dir # fips_dir /\ imported.success
    /\ Len(call.out) >= 3
    /\ Len(ImportedConfigDirs) = Len(call.out) - 1

\* C18: list(pattern) gives, for every config directory, exactly the names
\* of its config files that match the pattern; no other name appears.
C18_ListMatchesPattern ==
    call.op = "list" =>
        /\ DOMAIN call.out = SeqToSet(get_config_dirs)
        /\ \A dir \in DOMAIN call.out :
              SeqToSet(call.out[dir]) =
                  {n \in DOMAIN cfgFiles[dir] : fnmatch(n, call.pattern)}

\* every matched config has a platform key
AllHavePlatform == \A i \in 1..Len(vb.configs) : "platform" \in DOMAIN vb.configs[i]

C20_InterruptIsNeutral ==
    (VerbDone({"run"}) /\ vb.interrupt \in {"web", "mobile"}) =>
        /\ vb.out = ReturnCode(0)
        /\ vb.errors = <<>>

\* the user interrupts the log follow of an android run
C20_Witness ==
    /\ VerbDone({"run"}) /\ vb.interrupt = "mobile"
    /\ Len(adapterLog) = 3
    /\ vb.out = ReturnCode(0)

\* the file name synthesized from the platform
PlatformToolchain(cfg) == <<cfg["platform"], "toolchain.cmake">>

\* C21: for a non-native platform the file looked for in the layers is the
\* config's cmake-toolchain override if it has one, else
\* <platform>.toolchain.cmake: a path returned ends in that name, and None
\* is returned when no layer holds that name, whatever other toolchain
\* files the layers hold.
C21_ToolchainFileName ==
    (call.op = "get_toolchain" /\ NonNativeCfg(call.cfg)) =>
        LET cfg      == call.cfg
            override == "cmake-toolchain" \in DOMAIN cfg
            name     == IF override THEN cfg["cmake-toolchain"]
                        ELSE PlatformToolchain(cfg)
        IN /\ call.out.kind = "return"
           /\ call.out.value # NoPath =>
                 /\ call.out.value[2] = name
                 /\ call.out.value \in tcFiles
                 /\ override => call.out.value[2] # PlatformToolchain(cfg)
           /\ TcHits(name) = {} => call.out.value = NoPath

\* a config with an override, where <platform>.toolchain.cmake lies in an
\* earlier layer than the override file, which is returned
C21_Witness ==
    /\ call.op = "get_toolchain" /\ NonNativeCfg(call.cfg)
    /\ "cmake-toolchain" \in DOMAIN call.cfg
    /\ TcHits(PlatformToolchain(call.cfg)) # {}
    /\ TcHits(call.cfg["cmake-toolchain"]) # {}
    /\ Min(TcHits(PlatformToolchain(call.cfg))) < Min(TcHits(call.cfg["cmake-toolchain"]))
    /\ call.out.value[2] = call.cfg["cmake-toolchain"]

\* the IDE workspace-file writers
IdeWriters == {Invoked("vscode", "write_workspace_settings"),
               Invoked("clion", "write_workspace_settings")}

\* C22: gen_project invokes an IDE workspace-file writer only when
\* cmake.run_gen for that config returned success.
C22_WritersAfterSuccess ==
    (vb.pc # "idle" /\ vb.gen.called
        /\ SeqToSet(vb.gen.log) \cap IdeWriters # {}) =>
        vb.gen.out = Return(TRUE)

\* C23: clion.write_workspace_settings leaves every file that was in
\* .idea before the call with the content it had.
C23_ClionKeepsFiles ==
    (vb.pc # "idle" /\ vb.gen.called
        /\ Invoked("clion", "write_workspace_settings") \in SeqToSet(vb.gen.log)) =>
        \A n \in DOMAIN vb.gen.idea.files :
           /\ n \in DOMAIN ideaFiles.files
           /\ ideaFiles.files[n] = vb.gen.idea.files[n]

\* the build adapter was invoked for the config handled last: its pass
\* ended in a build that succeeded or failed
BuildReached ==
    /\ vb.pc \in {"loop", "done"} /\ vb.verb = "build"
    /\ vb.results # <<>>
    /\ vb.results[Len(vb.results)] \in {"ok", "failed"}

\* the places of an adapter operation in the invocations of the last pass
Places(op) == {i \in 1..Len(adapterLog) : adapterLog[i].op = op}

\* C24: build runs the generate path of a valid config with force False
\* before it invokes the build adapter: every cmake.run_gen for the config
\* comes before its run_build, and a config whose build directory holds
\* the cache marker is built with no run_gen at all.
C24_GenerateBeforeBuild ==
    BuildReached =>
        /\ vb.gen.called /\ vb.gen.cfg = LastHandled["name"] /\ ~vb.gen.force
        /\ Places("run_build") = {Len(adapterLog)}
        /\ \A i \in Places("run_gen") : i < Len(adapterLog)
        /\ vb.gen.entry = "cached" => Places("run_gen") = {}
        /\ vb.gen.entry # "cached" => Places("run_gen") # {}

\* a build of a config with the cache marker: the build adapter alone
C24_Witness ==
    /\ BuildReached
    /\ vb.gen.entry = "cached"
    /\ Len(adapterLog) = 1 /\ adapterLog[1].op = "run_build"

\* check_config_valid does not return valid = True for the config
FailsValidation(cfg) ==
    LET v == check_config_valid(cfg, FALSE)
    IN v.kind # "return" \/ ~v.valid

\* C25: run and clean validate each matched config: for a config that
\* fails validation no target is launched and no directory is deleted, its
\* pass ends as that of an invalid config.
C25_RunCleanValidate ==
    (vb.pc \in {"loop", "done"} /\ vb.verb \in {"run", "clean"}
        /\ vb.results # <<>> /\ FailsValidation(LastHandled)) =>
        /\ adapterLog = <<>>
        /\ vb.results[Len(vb.results)] = "invalid"

\* make_clean invoked its clean adapter for the config handled last
CleanReached ==
    /\ vb.pc \in {"loop", "done"} /\ vb.verb = "make_clean"
    /\ vb.results # <<>>
    /\ vb.results[Len(vb.results)] \in {"ok", "failed"}

\* the adapters whose operation op was invoked in the last pass
AdaptersOf(op) == {adapterLog[i].adapter : i \in Places(op)}

\* C26 as stated: for a valid config build and make_clean invoke exactly
\* one adapter, the one named by the config's build_tool, for each of
\* make, ninja, xcodebuild, cmake, vscode_cmake and clion.
C26_DispatchOneToOne ==
    /\ BuildReached =>
          /\ Cardinality(Places("run_build")) = 1
          /\ AdaptersOf("run_build") = {LastHandled["build_tool"]}
    /\ CleanReached =>
          /\ Cardinality(Places("run_clean")) = 1
          /\ AdaptersOf("run_clean") = {LastHandled["build_tool"]}

\* the adapter that builds and cleans for a build tool
OwnOrCmake(tool) == IF tool \in {"make", "ninja", "xcodebuild"} THEN tool ELSE "cmake"

\* C26 amended: exactly one adapter is invoked, the config's own for
\* make, ninja and xcodebuild, and the cmake adapter for cmake,
\* vscode_cmake and clion.
C26_DispatchOwnOrCmake ==
    /\ BuildReached =>
          /\ Cardinality(Places("run_build")) = 1
          /\ AdaptersOf("run_build") = {OwnOrCmake(LastHandled["build_tool"])}
    /\ CleanReached =>
          /\ Cardinality(Places("run_clean")) = 1
          /\ AdaptersOf("run_clean") = {OwnOrCmake(LastHandled["build_tool"])}

\* a ninja config built by the ninja adapter
C26_Witness ==
    /\ BuildReached
    /\ LastHandled["build_tool"] = "ninja"
    /\ AdaptersOf("run_build") = {"ninja"}

\* a config that cannot be used here: its build tool is unknown or not
\* installed, or the SDK of its platform is not installed
BadHere(cfg) ==
    \/ cfg["build_tool"] \notin build_tools
    \/ cfg["build_tool"] \notin tools
    \/ cfg["platform"] \in {"emscripten", "android"} /\ cfg["platform"] \notin sdks

\* C27: the pass of gen, build or make_clean over a config that fails
\* validation invokes no adapter operation and leaves the file system as
\* it was: no build directory is created, none changes.
C27_InvalidLeavesFiles ==
    [][(vb.pc = "loop" /\ vb.verb \in {"gen", "build", "make_clean"}
          /\ vb.i <= Len(vb.configs) /\ BadHere(vb.configs[vb.i])) =>
          /\ buildDirs' = buildDirs
          /\ deployDirs' = deployDirs
          /\ ideaFiles' = ideaFiles
          /\ adapterLog' = <<>>]_vars

\* gen generated one config and skipped an invalid one after it, which
\* has no build directory
C27_Witness ==
    /\ vb.pc \in {"loop", "done"} /\ vb.verb = "gen"
    /\ Len(vb.results) >= 2
    /\ vb.results[Len(vb.results) - 1] = "ok"
    /\ vb.results[Len(vb.results)] = "invalid"
    /\ BadHere(LastHandled)
    /\ buildDirs[LastHandled["name"]] = "none"
    /\ adapterLog = <<>>

\* C28: in build, a failed generation (gen_project returns False) ends the
\* process before the build adapter is reached: every run_build of a pass
\* follows a generation of the same config that returned True, freshly run
\* or skipped.
C28_FailedGenerationNoBuild ==
    (vb.pc \in {"loop", "done"} /\ vb.verb = "build") =>
        /\ Places("run_build") # {} =>
              /\ vb.results # <<>>
              /\ vb.gen.called /\ vb.gen.cfg = LastHandled["name"]
              /\ vb.gen.out = Return(TRUE)
              /\ \/ vb.gen.entry = "cached" /\ Places("run_gen") = {}
                 \/ vb.gen.entry # "cached" /\ Places("run_gen") # {}
        /\ (vb.gen.called /\ vb.gen.out = Return(FALSE)) =>
              /\ Places("run_build") = {}
              /\ vb.pc = "done" /\ vb.out = Exit10

\* build ended on a failed generation, cmake.run_gen being the one
\* adapter operation of the pass
C28_Witness ==
    /\ vb.pc = "done" /\ vb.verb = "build"
    /\ vb.gen.called /\ vb.gen.out = Return(FALSE)
    /\ adapterLog = <<Invoked("cmake", "run_gen")>>
    /\ vb.out = Exit10

\* C29: clean of a config whose build or deploy directory existed leaves
\* neither; the build that follows it (force False) finds no build
\* directory and invokes cmake.run_gen, before run_build if it gets there:
\* the freshness guard does not skip generation after a clean.
C29_CleanThenBuildGenerates ==
    /\ (vb.pc \in {"loop", "done"} /\ vb.verb = "clean" /\ vb.results # <<>>
          /\ vb.results[Len(vb.results)] = "cleaned") =>
          /\ buildDirs[LastHandled["name"]] = "none"
          /\ deployDirs[LastHandled["name"]] = "none"
    /\ (vb.pc \in {"loop", "done"} /\ vb.verb = "build"
          /\ vb.gen.called /\ vb.gen.cfg \in vb.cleaned) =>
          /\ ~vb.gen.force
          /\ vb.gen.entry = "none"
          /\ vb.gen.out.kind = "return" =>
                Invoked("cmake", "run_gen") \in SeqToSet(vb.gen.log)
    /\ (BuildReached /\ LastHandled["name"] \in vb.cleaned) =>
          /\ Places("run_gen") # {}
          /\ \A i \in Places("run_gen"), j \in Places("run_build") : i < j

\* a config with a cached build directory was cleaned, and the build that
\* followed generated it again and built it
C29_Witness ==
    /\ BuildReached
    /\ LastHandled["name"] \in vb.cleaned
    /\ vb.gen.entry = "none"
    /\ Places("run_gen") # {} /\ Places("run_build") # {}
    /\ buildDirs[LastHandled["name"]] = "cached"

\* C30: run without a working directory, over two or more configs,
\* launches each config's target in that config's own deploy directory.
C30_RunInOwnDeployDir ==
    (vb.pc = "loop" /\ vb.verb = "run" /\ vb.cwd_arg = <<"None">>
        /\ Len(vb.configs) >= 2 /\ vb.results # <<>>
        /\ vb.results[Len(vb.results)] = "launched") =>
        \A i \in 1..Len(adapterLog) :
            adapterLog[i].cwd = <<"deploy", LastHandled["name"]>>

====
